---- MODULE Spec2Model ----
(***************************************************************************)
(* Model of vscode-dataflow-analyzer/generate_presentation.py:             *)
(* parse_markdown_slides, add_text_to_shape, create_slide and main.        *)
(* A Python str is a sequence of one-character strings.                    *)
(***************************************************************************)
EXTENDS Integers, Sequences, FiniteSets, TLC

(***************************************************************************)
(* Bounds of the explored inputs.                                          *)
(***************************************************************************)
MaxLines == 4
MaxNumber == 38
MaxItems == 2
MaxTokens == 7

(***************************************************************************)
(* Python str primitives.                                                  *)
(***************************************************************************)
Min(S) == CHOOSE x \in S : \A y \in S : x <= y

NL == "\n"

\* the grave accent character (U+0060), which a string literal here cannot hold
Backquote == "U+0060"

IsSpace(c) == c \in {" ", NL, "\t", "\r"}

IsDigit(c) == c \in {"0", "1", "2", "3", "4", "5", "6", "7", "8", "9"}

DigitVal(c) ==
    CASE c = "0" -> 0 [] c = "1" -> 1 [] c = "2" -> 2 [] c = "3" -> 3
      [] c = "4" -> 4 [] c = "5" -> 5 [] c = "6" -> 6 [] c = "7" -> 7
      [] c = "8" -> 8 [] c = "9" -> 9

\* int(s) for a string of decimal digits
RECURSIVE ToInt(_)
ToInt(s) ==
    IF s = <<>> THEN 0
    ELSE 10 * ToInt(SubSeq(s, 1, Len(s) - 1)) + DigitVal(s[Len(s)])

\* s[i:].startswith(p), with i a 1-based position
StartsWithAt(s, i, p) ==
    /\ i >= 1
    /\ i + Len(p) - 1 <= Len(s)
    /\ \A k \in 1..Len(p) : s[i + k - 1] = p[k]

\* s.startswith(p)
StartsWith(s, p) == StartsWithAt(s, 1, p)

\* s.endswith(p)
EndsWith(s, p) == StartsWithAt(s, Len(s) - Len(p) + 1, p)

\* p in s
Contains(s, p) == \E i \in 1..(Len(s) + 1) : StartsWithAt(s, i, p)

\* s.strip()
Strip(s) ==
    LET keep == {i \in 1..Len(s) : ~IsSpace(s[i])}
    IN  IF keep = {} THEN <<>>
        ELSE SubSeq(s, Min(keep), CHOOSE i \in keep : \A j \in keep : j <= i)

\* s.split(sep) for a one-character separator
RECURSIVE Split(_, _)
Split(s, sep) ==
    LET at == {i \in 1..Len(s) : s[i] = sep}
    IN  IF at = {} THEN <<s>>
        ELSE <<SubSeq(s, 1, Min(at) - 1)>> \o Split(SubSeq(s, Min(at) + 1, Len(s)), sep)

\* s.replace(old, empty string): every non-overlapping occurrence, left to right
RECURSIVE Remove(_, _)
Remove(s, old) ==
    IF s = <<>> THEN <<>>
    ELSE IF StartsWith(s, old) THEN Remove(SubSeq(s, Len(old) + 1, Len(s)), old)
    ELSE <<s[1]>> \o Remove(SubSeq(s, 2, Len(s)), old)

LowerChar(c) ==
    CASE c = "A" -> "a" [] c = "B" -> "b" [] c = "C" -> "c" [] c = "D" -> "d"
      [] c = "E" -> "e" [] c = "F" -> "f" [] c = "G" -> "g" [] c = "H" -> "h"
      [] c = "I" -> "i" [] c = "J" -> "j" [] c = "K" -> "k" [] c = "L" -> "l"
      [] c = "M" -> "m" [] c = "N" -> "n" [] c = "O" -> "o" [] c = "P" -> "p"
      [] c = "Q" -> "q" [] c = "R" -> "r" [] c = "S" -> "s" [] c = "T" -> "t"
      [] c = "U" -> "u" [] c = "V" -> "v" [] c = "W" -> "w" [] c = "X" -> "x"
      [] c = "Y" -> "y" [] c = "Z" -> "z" [] OTHER -> c

\* s.lower()
Lower(s) == [i \in 1..Len(s) |-> LowerChar(s[i])]

\* the lines joined by newlines
RECURSIVE JoinLines(_)
JoinLines(ls) ==
    IF ls = <<>> THEN <<>>
    ELSE IF Len(ls) = 1 THEN ls[1]
    ELSE ls[1] \o <<NL>> \o JoinLines(Tail(ls))

(***************************************************************************)
(* parse_markdown_slides: the slide pattern                                *)
(* "## Slide ", digits, ": ", a lazy non-empty title, a blank line, a lazy   *)
(* body, and a lookahead for a rule line, "## Slide" or the end of the     *)
(* text; with DOTALL every '.' also matches a newline.                     *)
(***************************************************************************)
SlideLit == <<"#", "#", " ", "S", "l", "i", "d", "e", " ">>
ColonLit == <<":", " ">>
RuleLit == <<NL, "-", "-", "-", NL>>
NextSlideLit == <<"#", "#", " ", "S", "l", "i", "d", "e">>

\* end (exclusive) of the greedy digit run that starts at position d0
DigitsEnd(content, d0) ==
    LET stop == {i \in d0..Len(content) : ~IsDigit(content[i])}
    IN  IF stop = {} THEN Len(content) + 1 ELSE Min(stop)

\* positions k > t0 where the two newlines after the lazy title can stand
BlankAfterTitle(content, t0) ==
    {k \in (t0 + 1)..(Len(content) - 1) : content[k] = NL /\ content[k + 1] = NL}

\* the lookahead at position e: a rule line, "## Slide", or the end of the text
Lookahead(content, e) ==
    \/ StartsWithAt(content, e, RuleLit)
    \/ StartsWithAt(content, e, NextSlideLit)
    \/ e = Len(content) + 1

\* the pattern matches with its first character at position s
MatchesAt(content, s) ==
    /\ StartsWithAt(content, s, SlideLit)
    /\ DigitsEnd(content, s + Len(SlideLit)) > s + Len(SlideLit)
    /\ StartsWithAt(content, DigitsEnd(content, s + Len(SlideLit)), ColonLit)
    /\ BlankAfterTitle(content, DigitsEnd(content, s + Len(SlideLit)) + Len(ColonLit)) # {}

\* the match object at s: groups 1..3, start and end (exclusive)
MatchAt(content, s) ==
    LET d0 == s + Len(SlideLit)
        d1 == DigitsEnd(content, d0)
        t0 == d1 + Len(ColonLit)
        k  == Min(BlankAfterTitle(content, t0))
        b0 == k + 2
        e  == Min({p \in b0..(Len(content) + 1) : Lookahead(content, p)})
    IN  [start |-> s,
         group1 |-> SubSeq(content, d0, d1 - 1),
         group2 |-> SubSeq(content, t0, k - 1),
         group3 |-> SubSeq(content, b0, e - 1),
         end |-> e]

\* re.finditer(slide_pattern, content, re.DOTALL), searching from position from
RECURSIVE FindIter(_, _)
FindIter(content, from) ==
    LET starts == {s \in from..Len(content) : MatchesAt(content, s)}
    IN  IF starts = {} THEN <<>>
        ELSE LET m == MatchAt(content, Min(starts))
             IN  <<m>> \o FindIter(content, m.end)

(***************************************************************************)
(* parse_markdown_slides: the body loop                                    *)
(***************************************************************************)
SectionLit == <<"#", "#", "#", " ", "*", "*">>
BoldLit == <<"*", "*">>
DashBoldLit == <<"-", " ", "*", "*">>
StarBoldLit == <<"*", " ", "*", "*">>
DashLit == <<"-", " ">>
StarLit == <<"*", " ">>
FenceLit == <<Backquote, Backquote, Backquote>>
HashLit == <<"#">>

\* ParseLine with the plain bullet branch lost: such a line falls through to text
ParseLinePlainBulletAsText(rawline) ==
    LET line == Strip(rawline)
    IN  IF line = <<>> THEN <<>>
        ELSE IF StartsWith(line, SectionLit)
             THEN <<[kind |-> "section", text |-> Remove(Remove(line, SectionLit), BoldLit)]>>
        ELSE IF StartsWith(line, DashBoldLit) \/ StartsWith(line, StarBoldLit)
             THEN <<[kind |-> "bullet", text |-> Strip(SubSeq(line, 3, Len(line)))]>>
        ELSE IF StartsWith(line, FenceLit) THEN <<>>
        ELSE IF ~StartsWith(line, HashLit)
             THEN <<[kind |-> "text", text |-> line]>>
        ELSE <<>>

\* one iteration of the loop over the lines of body: the items the line appends
ParseLine(rawline) ==
    LET line == Strip(rawline)
    IN  IF line = <<>> THEN <<>>
        ELSE IF StartsWith(line, SectionLit)
             THEN <<[kind |-> "section", text |-> Remove(Remove(line, SectionLit), BoldLit)]>>
        ELSE IF StartsWith(line, DashBoldLit) \/ StartsWith(line, StarBoldLit)
             THEN <<[kind |-> "bullet", text |-> Strip(SubSeq(line, 3, Len(line)))]>>
        ELSE IF StartsWith(line, DashLit) \/ StartsWith(line, StarLit)
             THEN <<[kind |-> "bullet", text |-> Strip(SubSeq(line, 3, Len(line)))]>>
        ELSE IF StartsWith(line, FenceLit) THEN <<>>
        ELSE IF ~StartsWith(line, HashLit)
             THEN <<[kind |-> "text", text |-> line]>>
        ELSE <<>>

RECURSIVE ParseLines(_)
ParseLines(ls) ==
    IF ls = <<>> THEN <<>> ELSE ParseLine(ls[1]) \o ParseLines(Tail(ls))

\* the bullets list built for one match
ParseBody(group3) == ParseLines(Split(Strip(group3), NL))

\* the dict appended to slides for one match
SlideOfMatch(m) ==
    [number |-> ToInt(m.group1), title |-> m.group2, content |-> ParseBody(m.group3)]

\* parse_markdown_slides returning the slides sorted by number
parse_markdown_slides_sorted(content) ==
    LET ms == FindIter(content, 1)
    IN  SortSeq([i \in 1..Len(ms) |-> SlideOfMatch(ms[i])],
                LAMBDA a, b : a.number < b.number)

\* parse_markdown_slides applied to the text of the file
parse_markdown_slides(content) ==
    LET ms == FindIter(content, 1)
    IN  [i \in 1..Len(ms) |-> SlideOfMatch(ms[i])]

(***************************************************************************)
(* Bold markers: re.split on the pattern "two asterisks, any characters    *)
(* (lazy), two asterisks" with the match kept as a part, and the loop over *)
(* parts (add_text_to_shape and the bullet branch of create_slide).        *)
(***************************************************************************)
\* positions e >= s + 2 where the closing ** of a span opened at s can stand
\* (the any-character class does not match a newline here: no DOTALL)
BoldCloses(text, s) ==
    {e \in (s + 2)..(Len(text) - 1) :
        /\ text[e] = "*" /\ text[e + 1] = "*"
        /\ \A j \in (s + 2)..(e - 1) : text[j] # NL}

\* positions where the bold pattern matches
BoldOpens(text) ==
    {s \in 1..(Len(text) - 3) :
        text[s] = "*" /\ text[s + 1] = "*" /\ BoldCloses(text, s) # {}}

\* re.split(bold pattern, text): plain parts and matched parts alternate
RECURSIVE ReSplit(_)
ReSplit(text) ==
    IF BoldOpens(text) = {} THEN <<text>>
    ELSE LET s == Min(BoldOpens(text))
             e == Min(BoldCloses(text, s))
         IN  <<SubSeq(text, 1, s - 1), SubSeq(text, s, e + 1)>>
                 \o ReSplit(SubSeq(text, e + 2, Len(text)))

\* the runs one part adds to the paragraph
PartRuns(part, is_bold, font_size) ==
    IF StartsWith(part, BoldLit) /\ EndsWith(part, BoldLit)
    THEN <<[text |-> SubSeq(part, 3, Len(part) - 2), bold |-> TRUE, size |-> font_size]>>
    ELSE IF Strip(part) # <<>>
    THEN <<[text |-> part, bold |-> is_bold, size |-> font_size]>>
    ELSE <<>>

RECURSIVE PartsRuns(_, _, _)
PartsRuns(parts, is_bold, font_size) ==
    IF parts = <<>> THEN <<>>
    ELSE PartRuns(parts[1], is_bold, font_size) \o PartsRuns(Tail(parts), is_bold, font_size)

\* the runs add_text_to_shape leaves in the paragraph of the shape
add_text_to_shape(text, is_bold, font_size) ==
    PartsRuns(ReSplit(text), is_bold, font_size)

\* the runs the bullet branch of create_slide adds to its paragraph
BulletRuns(text) == PartsRuns(ReSplit(text), FALSE, 14)

(***************************************************************************)
(* create_slide                                                            *)
(***************************************************************************)
\* pptx.util.Inches, for a length given in hundredths of an inch, in EMU
Inches(hundredths) == hundredths * 9144

content_top == Inches(130)
content_left == Inches(70)
content_width == Inches(860)
content_height == Inches(500)

screenshot_keywords ==
    << <<"v", "i", "s", "u", "a", "l", "i", "z", "a", "t", "i", "o", "n">>,
       <<"C", "F", "G">>,
       <<"g", "r", "a", "p", "h">>,
       <<"i", "n", "t", "e", "r", "c", "o", "n", "n", "e", "c", "t", "e", "d">>,
       <<"c", "a", "l", "l", " ", "g", "r", "a", "p", "h">>,
       <<"t", "a", "i", "n", "t", " ", "a", "n", "a", "l", "y", "s", "i", "s">>,
       <<"v", "i", "s", "u", "a", "l", "i", "z", "e", "r">> >>

needs_screenshot(title) ==
    \E k \in 1..Len(screenshot_keywords) : Contains(Lower(title), screenshot_keywords[k])

screenshot_slides == {3, 32, 33, 37}

diagram_slides == {2, 7, 34, 35}

DiagramInstructions(number) ==
    IF number = 2
    THEN <<"[ARCHITECTURE DIAGRAM PLACEHOLDER]\n\nAdd diagram showing:\n- Analysis Pipeline (4 stages)\n- Key Components (5 components)\n- Data flow between components\n- CFG -> Analysis -> Visualization flow">>
    ELSE IF number = 7
    THEN <<"[ANALYSIS PIPELINE DIAGRAM PLACEHOLDER]\n\nAdd diagram showing:\n- 6-step pipeline\n- File parsing -> Intra-procedural -> Call graph\n- Inter-procedural -> Visualization -> State\n- Component interactions">>
    ELSE IF number = 34
    THEN <<"[IPA FRAMEWORK DIAGRAM PLACEHOLDER]\n\nAdd diagram showing:\n- Phase 1: Call Graph Construction\n- Phase 2: Advanced Call Graph Analysis\n- Component relationships\n- Data flow">>
    ELSE IF number = 35
    THEN <<"[IPA FRAMEWORK DIAGRAM PLACEHOLDER]\n\nAdd diagram showing:\n- Phase 3: Inter-Procedural Reaching Definitions\n- Phase 4: Parameter & Return Value Analysis\n- Component relationships\n- Data flow">>
    ELSE <<"[DIAGRAM PLACEHOLDER]\n\nAdd diagram showing:\n- Component relationships\n- Data flow\n- Analysis pipeline">>

ScreenshotInstructions(number, title) ==
    IF number = 3
    THEN <<"CFG Generation Pipeline\n\nTake screenshot of:\n- cfg-exporter tool\n- CMake build output\n- JSON CFG output">>
    ELSE IF number = 32
    THEN <<"CFGVisualizer Overview\n\nTake screenshot of:\n- VS Code extension panel\n- Visualization tabs\n- CFG graph display">>
    ELSE IF number = 33
    THEN <<"CFGVisualizer Implementation\n\nTake screenshot of:\n- Interconnected CFG view\n- Edge type toggles\n- Multiple visualization tabs">>
    ELSE IF number = 37
    THEN <<"Visualization Features\n\nTake screenshot of:\n- Interactive CFG\n- Color-coded nodes\n- Edge type visualization">>
    ELSE <<"[SCREENSHOT PLACEHOLDER]\n\n">> \o title
            \o <<"\n\nTake screenshot of:\n- Visualization panel\n- Relevant tabs\n- Analysis results">>

\* a textbox: its role, its box <<left, top, width, height>> in EMU, its text
Textbox(name, left, top, width, height, text) ==
    [name |-> name, box |-> <<left, top, width, height>>, text |-> text]

\* LayoutShapes with the keyword test left out of the second branch
LayoutShapesNoKeywordTest(slide_data) ==
    IF slide_data.number \in diagram_slides
    THEN << Textbox("diagram", content_left + Inches(50), content_top,
                    content_width - Inches(100), Inches(350),
                    DiagramInstructions(slide_data.number)),
            Textbox("text", content_left, content_top + Inches(380),
                    content_width, Inches(280), <<>>) >>
    ELSE IF slide_data.number \in screenshot_slides
    THEN << Textbox("text", content_left, content_top, Inches(400), content_height, <<>>),
            Textbox("screenshot", Inches(530), content_top + Inches(20),
                    Inches(400), Inches(350),
                    ScreenshotInstructions(slide_data.number, slide_data.title)) >>
    ELSE << Textbox("text", content_left, content_top, content_width, content_height, <<>>) >>

\* LayoutShapes with the final else branch lost: no text box for the other slides
LayoutShapesNoElse(slide_data) ==
    IF slide_data.number \in diagram_slides
    THEN << Textbox("diagram", content_left + Inches(50), content_top,
                    content_width - Inches(100), Inches(350),
                    DiagramInstructions(slide_data.number)),
            Textbox("text", content_left, content_top + Inches(380),
                    content_width, Inches(280), <<>>) >>
    ELSE IF needs_screenshot(slide_data.title) /\ slide_data.number \in screenshot_slides
    THEN << Textbox("text", content_left, content_top, Inches(400), content_height, <<>>),
            Textbox("screenshot", Inches(530), content_top + Inches(20),
                    Inches(400), Inches(350),
                    ScreenshotInstructions(slide_data.number, slide_data.title)) >>
    ELSE <<>>

\* the shapes the three-way branch adds: the placeholder (if any) and text_shape
LayoutShapes(slide_data) ==
    IF slide_data.number \in diagram_slides
    THEN << Textbox("diagram", content_left + Inches(50), content_top,
                    content_width - Inches(100), Inches(350),
                    DiagramInstructions(slide_data.number)),
            Textbox("text", content_left, content_top + Inches(380),
                    content_width, Inches(280), <<>>) >>
    ELSE IF needs_screenshot(slide_data.title) /\ slide_data.number \in screenshot_slides
    THEN << Textbox("text", content_left, content_top, Inches(400), content_height, <<>>),
            Textbox("screenshot", Inches(530), content_top + Inches(20),
                    Inches(400), Inches(350),
                    ScreenshotInstructions(slide_data.number, slide_data.title)) >>
    ELSE << Textbox("text", content_left, content_top, content_width, content_height, <<>>) >>

\* ItemParagraphs with the text branch lost: plain text items add no paragraph
ItemParagraphsNoText(item) ==
    IF item.kind = "section"
    THEN <<[style |-> "section",
            runs |-> <<[text |-> item.text, bold |-> TRUE, size |-> 18]>>]>>
    ELSE IF item.kind = "bullet"
    THEN <<[style |-> "bullet", runs |-> PartsRuns(ReSplit(item.text), FALSE, 14)]>>
    ELSE <<>>

\* the paragraph one content item adds to text_frame
ItemParagraphs(item) ==
    IF item.kind = "section"
    THEN <<[style |-> "section",
            runs |-> <<[text |-> item.text, bold |-> TRUE, size |-> 18]>>]>>
    ELSE IF item.kind = "bullet"
    THEN <<[style |-> "bullet", runs |-> BulletRuns(item.text)]>>
    ELSE IF item.kind = "text"
    THEN <<[style |-> "text",
            runs |-> <<[text |-> item.text, bold |-> FALSE, size |-> 12]>>]>>
    ELSE <<>>

\* the loop over the content of slide_data: the paragraphs added to text_frame
RECURSIVE ContentParagraphs(_)
ContentParagraphs(items) ==
    IF items = <<>> THEN <<>>
    ELSE ItemParagraphs(items[1]) \o ContentParagraphs(Tail(items))

DigitChar(d) ==
    CASE d = 0 -> "0" [] d = 1 -> "1" [] d = 2 -> "2" [] d = 3 -> "3" [] d = 4 -> "4"
      [] d = 5 -> "5" [] d = 6 -> "6" [] d = 7 -> "7" [] d = 8 -> "8" [] d = 9 -> "9"

\* str(n) for n >= 0
RECURSIVE Str(_)
Str(n) == IF n < 10 THEN <<DigitChar(n)>> ELSE Str(n \div 10) \o <<DigitChar(n % 10)>>

\* the slide create_slide adds to the presentation
create_slide(slide_data) ==
    [shapes |->
        << Textbox("title", Inches(50), Inches(20), Inches(900), Inches(90), slide_data.title),
           Textbox("underline", Inches(50), Inches(100), Inches(900), Inches(5), <<>>) >>
        \o LayoutShapes(slide_data)
        \o << Textbox("slide_num", Inches(920), Inches(700), Inches(50), Inches(30),
                      Str(slide_data.number)) >>,
     text_frame |-> ContentParagraphs(slide_data.content)]

(***************************************************************************)
(* State: main() and the functions it calls.                               *)
(***************************************************************************)
VARIABLES
    pc,           \* where main (or the function run on its own) stands
    content,      \* the text read from the markdown file
    slides_data,  \* the list parse_markdown_slides returned
    i,            \* index of the next slide of the loop in main
    prs,          \* the slides added to the presentation so far
    output_file,  \* the slides of the saved file
    shape         \* the shape handed to add_text_to_shape

vars == <<pc, content, slides_data, i, prs, output_file, shape>>

NoShape == [text |-> <<>>, is_bold |-> FALSE, font_size |-> 14, cleared |-> FALSE, runs |-> <<>>]

\* all sequences over S of length at most n
SeqsUpTo(S, n) == UNION {[1..k -> S] : k \in 0..n}

RECURSIVE Flatten(_)
Flatten(ss) == IF ss = <<>> THEN <<>> ELSE ss[1] \o Flatten(Tail(ss))

(***************************************************************************)
(* Inputs: markdown documents                                              *)
(***************************************************************************)
Heading2 == <<"#", "#", " ", "S", "l", "i", "d", "e", " ", "2", ":", " ", "T">>
Heading1 == <<"#", "#", " ", "S", "l", "i", "d", "e", " ", "1", ":", " ", "U">>
BlankLine == <<>>
RuleLine == <<"-", "-", "-">>
FenceLine == <<Backquote, Backquote, Backquote>>
TextLine == <<"x">>
BulletLine == <<"-", " ", "x">>
SectionLine == <<"#", "#", "#", " ", "*", "*", "S", "*", "*">>
SubheadingLine == <<"#", "#", "#", " ", "h">>

LineSet ==
    {Heading1, Heading2, BlankLine, RuleLine, FenceLine, TextLine, BulletLine,
     SectionLine, SubheadingLine}

\* a slide heading followed by up to MaxLines further lines
Documents == {JoinLines(<<Heading2>> \o ls) : ls \in SeqsUpTo(LineSet, MaxLines)}

(***************************************************************************)
(* Inputs: slide records for create_slide                                  *)
(***************************************************************************)
Titles ==
    { <<"C", "F", "G", " ", "G", "e", "n", "e", "r", "a", "t", "i", "o", "n">>,
      <<"C", "a", "l", "l", " ", "G", "r", "a", "p", "h">>,
      <<"O", "v", "e", "r", "v", "i", "e", "w">>,
      <<"V", "i", "s", "u", "a", "l", "i", "z", "e", "r">>,
      <<"*", "*", "A", "*", "*">> }

Items ==
    { [kind |-> "section", text |-> <<"S">>],
      [kind |-> "bullet", text |-> <<"*", "*", "b", "*", "*", " ", "y">>],
      [kind |-> "bullet", text |-> <<"x">>],
      [kind |-> "text", text |-> <<"x">>] }

SlideRecords ==
    [number : 0..MaxNumber, title : Titles, content : SeqsUpTo(Items, MaxItems)]

(***************************************************************************)
(* Inputs: texts for the bold splitting                                    *)
(***************************************************************************)
Tokens == { <<"*", "*">>, <<"*">>, <<"a">>, <<" ">> }

Texts == {Flatten(ts) : ts \in SeqsUpTo(Tokens, MaxTokens)}

(***************************************************************************)
(* main                                                                    *)
(***************************************************************************)
Init ==
    /\ pc = "parse"
    /\ content \in Documents
    /\ slides_data = <<>>
    /\ i = 1
    /\ prs = <<>>
    /\ output_file = <<>>
    /\ shape = NoShape

\* slides_data = parse_markdown_slides('PROJECT_PRESENTATION.md')
Parse ==
    /\ pc = "parse"
    /\ slides_data' = parse_markdown_slides(content)
    /\ i' = 1
    /\ pc' = "create"
    /\ UNCHANGED <<content, prs, output_file, shape>>

\* one iteration of the loop in main: create_slide(prs, slide_data)
CreateSlide ==
    /\ pc = "create"
    /\ i <= Len(slides_data)
    /\ prs' = Append(prs, create_slide(slides_data[i]))
    /\ i' = i + 1
    /\ UNCHANGED <<pc, content, slides_data, output_file, shape>>

\* prs.save(output_file)
Save ==
    /\ pc = "create"
    /\ i > Len(slides_data)
    /\ output_file' = prs
    /\ pc' = "done"
    /\ UNCHANGED <<content, slides_data, i, prs, shape>>

Next == Parse \/ CreateSlide \/ Save

Spec == Init /\ [][Next]_vars

(***************************************************************************)
(* create_slide on its own, for any slide record                           *)
(***************************************************************************)
InitCreate ==
    /\ pc = "create"
    /\ content = <<>>
    /\ \E sd \in SlideRecords : slides_data = <<sd>>
    /\ i = 1
    /\ prs = <<>>
    /\ output_file = <<>>
    /\ shape = NoShape

NextCreate == CreateSlide \/ Save

SpecCreate == InitCreate /\ [][NextCreate]_vars

(***************************************************************************)
(* add_text_to_shape on its own, for any text                              *)
(***************************************************************************)
InitText ==
    /\ pc = "text"
    /\ content = <<>>
    /\ slides_data = <<>>
    /\ i = 1
    /\ prs = <<>>
    /\ output_file = <<>>
    /\ \E t \in Texts, b \in BOOLEAN :
          shape = [text |-> t, is_bold |-> b, font_size |-> 14, cleared |-> FALSE, runs |-> <<>>]

\* add_text_to_shape(shape, text, is_bold, font_size)
AddTextToShape ==
    /\ pc = "text"
    /\ shape' = [shape EXCEPT !.cleared = TRUE,
                              !.runs = add_text_to_shape(shape.text, shape.is_bold, shape.font_size)]
    /\ pc' = "done"
    /\ UNCHANGED <<content, slides_data, i, prs, output_file>>

NextText == AddTextToShape

SpecText == InitText /\ [][NextText]_vars

(***************************************************************************)
(* Properties of create_slide (specification SpecCreate)                   *)
(***************************************************************************)
\* the shapes of a rendered slide that carry the given role
ShapesNamed(r, name) == {k \in 1..Len(r.shapes) : r.shapes[k].name = name}

\* the box of the (single) text box of a rendered slide
TextBoxIs(r, box) ==
    /\ Cardinality(ShapesNamed(r, "text")) = 1
    /\ \A k \in ShapesNamed(r, "text") : r.shapes[k].box = box

\* diagram layout: a diagram placeholder on top, the text box below it
IsDiagramLayout(r) ==
    /\ Cardinality(ShapesNamed(r, "diagram")) = 1
    /\ ShapesNamed(r, "screenshot") = {}
    /\ TextBoxIs(r, <<Inches(70), Inches(510), Inches(860), Inches(280)>>)

\* split layout: the text box on the left, a screenshot placeholder on the right
IsSplitLayout(r) ==
    /\ Cardinality(ShapesNamed(r, "screenshot")) = 1
    /\ ShapesNamed(r, "diagram") = {}
    /\ TextBoxIs(r, <<Inches(70), Inches(130), Inches(400), Inches(500)>>)

\* full-width text layout: no placeholder, the text box over the whole width
IsFullTextLayout(r) ==
    /\ ShapesNamed(r, "diagram") = {}
    /\ ShapesNamed(r, "screenshot") = {}
    /\ TextBoxIs(r, <<Inches(70), Inches(130), Inches(860), Inches(500)>>)

\* C1: every slide create_slide has rendered has the layout the first matching
\* rule gives: number in {2, 7, 34, 35} -> diagram, whatever the title; otherwise
\* keyword test passes and number in {3, 32, 33, 37} -> split text/screenshot;
\* otherwise -> full-width text.
C1_LayoutByFirstMatch ==
    \A k \in 1..Len(prs) :
        IF slides_data[k].number \in {2, 7, 34, 35}
        THEN IsDiagramLayout(prs[k])
        ELSE IF needs_screenshot(slides_data[k].title)
                /\ slides_data[k].number \in {3, 32, 33, 37}
        THEN IsSplitLayout(prs[k])
        ELSE IsFullTextLayout(prs[k])

\* a slide of the screenshot table whose title passes the keyword test has been
\* rendered with the split layout
C1_Witness ==
    /\ Len(prs) = 1
    /\ slides_data[1].number = 33
    /\ needs_screenshot(slides_data[1].title)
    /\ IsSplitLayout(prs[1])

\* C9: every rendered slide has exactly one of the three layouts (never none,
\* never two), every slide handed to create_slide is rendered (no reject path),
\* and a placeholder always carries an instruction text.
C9_TemplateTotal ==
    /\ (pc = "done" => Len(prs) = Len(slides_data))
    /\ \A k \in 1..Len(prs) :
        /\ Cardinality({l \in {"diagram", "split", "full"} :
               \/ l = "diagram" /\ IsDiagramLayout(prs[k])
               \/ l = "split" /\ IsSplitLayout(prs[k])
               \/ l = "full" /\ IsFullTextLayout(prs[k])}) = 1
        /\ \A j \in ShapesNamed(prs[k], "diagram") \cup ShapesNamed(prs[k], "screenshot") :
               prs[k].shapes[j].text # <<>>

\* a slide outside both tables, with a title that passes the keyword test, has
\* been rendered (full text), and the run has ended
C9_Witness ==
    /\ pc = "done"
    /\ Len(prs) = 1
    /\ slides_data[1].number \notin {2, 7, 34, 35, 3, 32, 33, 37}
    /\ needs_screenshot(slides_data[1].title)
    /\ IsFullTextLayout(prs[1])

\* the paragraphs of every rendered slide follow its content list: one
\* paragraph per item, in order, styled by the kind of the item; a section or
\* text paragraph carries the text of the item in its single run
ParagraphsFollowContent ==
    \A k \in 1..Len(prs) :
        /\ Len(prs[k].text_frame) = Len(slides_data[k].content)
        /\ \A j \in 1..Len(prs[k].text_frame) :
            /\ prs[k].text_frame[j].style = slides_data[k].content[j].kind
            /\ slides_data[k].content[j].kind \in {"section", "text"} =>
                  /\ Len(prs[k].text_frame[j].runs) = 1
                  /\ prs[k].text_frame[j].runs[1].text = slides_data[k].content[j].text

\* C10: no step of create_slide changes the slide records, and after each step
\* the content region holds exactly one paragraph per content item, in the
\* order of the content list and styled by the kind of the item.
C10_ContentPassedThrough ==
    [][slides_data' = slides_data /\ ParagraphsFollowContent']_vars

\* a slide with two content items of different kinds has been rendered with
\* two paragraphs
C10_Witness ==
    /\ Len(prs) = 1
    /\ Len(slides_data[1].content) = 2
    /\ slides_data[1].content[1].kind = "bullet"
    /\ slides_data[1].content[2].kind = "text"
    /\ Len(prs[1].text_frame) = 2

\* the title holds one of the keywords of the list, exactly as the list writes it
HoldsKeywordAsWritten(title) ==
    \E j \in 1..Len(screenshot_keywords) : Contains(title, screenshot_keywords[j])

\* C11: every keyword of the list is effective: a slide whose number is in the
\* screenshot table {3, 32, 33, 37} and not in the diagram table, and whose
\* title holds a keyword exactly as the list writes it ("CFG" included), is
\* rendered with the split text/screenshot layout.
C11_EveryKeywordEffective ==
    \A k \in 1..Len(prs) :
        (/\ slides_data[k].number \in {3, 32, 33, 37}
         /\ slides_data[k].number \notin {2, 7, 34, 35}
         /\ HoldsKeywordAsWritten(slides_data[k].title))
            => IsSplitLayout(prs[k])

(***************************************************************************)
(* Properties of parse_markdown_slides (specification Spec)                *)
(***************************************************************************)
\* the matches of the slide pattern in the document
Matches == FindIter(content, 1)

\* the lines of the document
DocLines == Split(content, NL)

\* the number of the line that holds position pos
LineOf(pos) == 1 + Cardinality({j \in 1..(pos - 1) : content[j] = NL})

\* the lines of the body of the k-th slide
BodyLines(k) == Split(Strip(Matches[k].group3), NL)

\* a is b with some elements left out
RECURSIVE IsSubseq(_, _)
IsSubseq(a, b) ==
    IF a = <<>> THEN TRUE
    ELSE IF b = <<>> THEN FALSE
    ELSE IF a[1] = b[1] THEN IsSubseq(Tail(a), Tail(b))
    ELSE IsSubseq(a, Tail(b))

\* a code-fence line
IsFence(l) == StartsWith(Strip(l), FenceLit)

\* the lines with every closed fenced block (opening fence, the lines inside,
\* closing fence) left out
RECURSIVE DropFenced(_)
DropFenced(ls) ==
    IF ls = <<>> THEN <<>>
    ELSE IF IsFence(ls[1]) /\ \E j \in 2..Len(ls) : IsFence(ls[j])
    THEN DropFenced(SubSeq(ls, Min({j \in 2..Len(ls) : IsFence(ls[j])}) + 1, Len(ls)))
    ELSE <<ls[1]>> \o DropFenced(Tail(ls))

\* C2: the content of every slide is what its body gives once every fenced
\* code block is left out whole: no line between an opening and its closing
\* fence produces a content item.
C2_FencedBlockDiscarded ==
    pc # "parse" =>
        \A k \in 1..Len(slides_data) :
            slides_data[k].content = ParseLines(DropFenced(BodyLines(k)))

\* a body line that is neither blank nor a code fence
IsCountedLine(l) == Strip(l) # <<>> /\ ~IsFence(l)

\* a body line that is neither blank, nor a code fence, nor a line starting
\* with '#' that is no bold level-3 heading
IsItemLine(l) ==
    /\ IsCountedLine(l)
    /\ StartsWith(Strip(l), HashLit) => StartsWith(Strip(l), SectionLit)

\* the kind the precedence rules give a line
ExpectedKind(l) ==
    IF StartsWith(Strip(l), SectionLit) THEN "section"
    ELSE IF StartsWith(Strip(l), DashLit) \/ StartsWith(Strip(l), StarLit) THEN "bullet"
    ELSE "text"

\* the items are one per line, in order, each of the kind of its line
ItemsMatchLines(items, ls) ==
    /\ Len(items) = Len(ls)
    /\ \A j \in 1..Len(items) : items[j].kind = ExpectedKind(ls[j])

\* C3 as stated: every non-blank, non-code-fence body line gives exactly one
\* item of the kind the precedence rules give (section, bullet, text), so a
\* slide has as many items as non-blank, non-code-fence body lines.
C3_OneItemPerLine ==
    pc # "parse" =>
        \A k \in 1..Len(slides_data) :
            ItemsMatchLines(slides_data[k].content, SelectSeq(BodyLines(k), IsCountedLine))

\* C3 amended: every body line that is neither blank, nor a code fence, nor a
\* line starting with '#' other than a bold level-3 heading gives exactly one
\* item of the kind the precedence rules give; a slide has as many items as
\* such lines.
C3_OneItemPerItemLine ==
    pc # "parse" =>
        \A k \in 1..Len(slides_data) :
            ItemsMatchLines(slides_data[k].content, SelectSeq(BodyLines(k), IsItemLine))

\* a slide with a section, a bullet and a text item, in this order, was parsed
C3_Witness ==
    /\ pc # "parse"
    /\ \E k \in 1..Len(slides_data) :
          /\ Len(slides_data[k].content) = 3
          /\ slides_data[k].content[1].kind = "section"
          /\ slides_data[k].content[2].kind = "bullet"
          /\ slides_data[k].content[3].kind = "text"

\* the first line after line h that is a standalone rule or starts a slide
\* heading (one past the last line if there is none)
RegionEnd(h) ==
    Min({j \in (h + 1)..(Len(DocLines) + 1) :
            \/ j = Len(DocLines) + 1
            \/ DocLines[j] = RuleLine
            \/ StartsWith(DocLines[j], NextSlideLit)})

\* C5: a slide (here: one whose heading line is followed by a blank line, so
\* that its title is that of the heading line) takes its content only from the
\* lines strictly between its heading line and the first following slide
\* heading or standalone rule line.
C5_ContentEndsAtRule ==
    pc # "parse" =>
        \A k \in 1..Len(slides_data) :
            (\A j \in 1..Len(slides_data[k].title) : slides_data[k].title[j] # NL) =>
                LET h == LineOf(Matches[k].start)
                IN  IsSubseq(slides_data[k].content,
                             ParseLines(SubSeq(DocLines, h + 1, RegionEnd(h) - 1)))

\* the heading occurrences: positions where "## Slide ", digits and ": " stand
IsHeadingAt(s) ==
    /\ StartsWithAt(content, s, SlideLit)
    /\ DigitsEnd(content, s + Len(SlideLit)) > s + Len(SlideLit)
    /\ StartsWithAt(content, DigitsEnd(content, s + Len(SlideLit)), ColonLit)

\* the integers of the heading occurrences from position from on, in text order
RECURSIVE HeadingNumbers(_)
HeadingNumbers(from) ==
    LET at == {s \in from..Len(content) : IsHeadingAt(s)}
    IN  IF at = {} THEN <<>>
        ELSE <<ToInt(SubSeq(content, Min(at) + Len(SlideLit),
                            DigitsEnd(content, Min(at) + Len(SlideLit)) - 1))>>
                \o HeadingNumbers(Min(at) + 1)

\* every heading occurrence starts a line, has a title on its line, and is
\* followed by a blank line
HeadingsWellFormed ==
    \A s \in {p \in 1..Len(content) : IsHeadingAt(p)} :
        LET t0 == DigitsEnd(content, s + Len(SlideLit)) + Len(ColonLit)
            nls == {q \in t0..Len(content) : content[q] = NL}
        IN  /\ s = 1 \/ content[s - 1] = NL
            /\ nls # {}
            /\ Min(nls) > t0
            /\ Min(nls) + 1 <= Len(content)
            /\ content[Min(nls) + 1] = NL

\* the numbers of the slides returned, in order
SlideNumbers == [k \in 1..Len(slides_data) |-> slides_data[k].number]

\* C6: the numbers of the slides returned are the integers of headings of the
\* text, in text order (never sorted, deduplicated or renumbered); when every
\* heading is well formed they are the integers of all the headings.
C6_OrderPreserved ==
    pc # "parse" =>
        /\ IsSubseq(SlideNumbers, HeadingNumbers(1))
        /\ HeadingsWellFormed => SlideNumbers = HeadingNumbers(1)

\* a document with the headings 2, 1 (out of order) was parsed to slides 2, 1
C6_Witness ==
    /\ pc # "parse"
    /\ HeadingNumbers(1) = <<2, 1>>
    /\ SlideNumbers = <<2, 1>>

\* the rest of the line after the ": " of the heading that starts at s
HeadingLineTitle(s) ==
    LET t0 == DigitsEnd(content, s + Len(SlideLit)) + Len(ColonLit)
        nls == {q \in t0..Len(content) : content[q] = NL}
    IN  SubSeq(content, t0, IF nls = {} THEN Len(content) ELSE Min(nls) - 1)

\* C7: the title of every slide is exactly the free-text portion of its one
\* heading line; it holds no text of a later line.
C7_TitleFromHeadingLine ==
    pc # "parse" =>
        \A k \in 1..Len(slides_data) :
            slides_data[k].title = HeadingLineTitle(Matches[k].start)

(***************************************************************************)
(* Properties of the bold splitting (specification SpecText)               *)
(***************************************************************************)
\* the texts of the runs, concatenated
RECURSIVE ConcatRuns(_)
ConcatRuns(runs) ==
    IF runs = <<>> THEN <<>> ELSE runs[1].text \o ConcatRuns(Tail(runs))

\* the number of asterisks of a text
Stars(t) == Cardinality({j \in 1..Len(t) : t[j] = "*"})

\* the text has bold markers, its asterisks stand in pairs (markers) and the
\* markers in pairs, and it has no leading or trailing whitespace (as the
\* bullet texts, which the parser strips)
Balanced(t) ==
    /\ Stars(t) > 0
    /\ Strip(t) = t
    /\ \A j \in 1..Len(t) :
          t[j] = "*" =>
              Cardinality({n \in {j - 1, j + 1} : n \in 1..Len(t) /\ t[n] = "*"}) = 1
    /\ Stars(t) % 4 = 0

\* the number of spans the bold pattern matches in the text
PairedSpans(t) == (Len(ReSplit(t)) - 1) \div 2

\* C4: for a text with balanced bold markers, the run texts concatenated are
\* the text with the markers removed; no other character is lost.
C4_EmphasisRoundTrip ==
    (pc = "done" /\ Balanced(shape.text)) =>
        ConcatRuns(shape.runs) = Remove(shape.text, BoldLit)

\* C8: only the markers of matched spans leave the text, so every unpaired
\* marker is still in the runs; and only matched spans become emphasized runs.
C8_UnpairedMarkersLiteral ==
    pc = "done" =>
        /\ Stars(ConcatRuns(shape.runs)) = Stars(shape.text) - 4 * PairedSpans(shape.text)
        /\ ~shape.is_bold =>
              Cardinality({j \in 1..Len(shape.runs) : shape.runs[j].bold})
                  = PairedSpans(shape.text)

====
